---- MODULE Spec2Model ----
(***************************************************************************)
(* Batch PLY -> USDZ conversion (threedgrut/export/scripts).               *)
(*                                                                         *)
(* The module models batch_ply_to_usdz.py: main() (input validation,       *)
(* discovery, dry run, the single-threaded loop, the ThreadPoolExecutor    *)
(* branch and the summary), convert_single_file() and                      *)
(* get_thread_local_objects() with its threading.local() storage.          *)
(*                                                                         *)
(* Thread 0 is the main thread; threads 1..workers are the pool threads.   *)
(* The external converter (MixtureOfGaussians, USDZExporter, Hydra) is the *)
(* environment: what each of its calls does is chosen nondeterministically.*)
(***************************************************************************)
EXTENDS Integers, Sequences, FiniteSets, TLC

\* Bounds of the model.
MaxTasks == 2
MaxWorkers == 2
MaxCalls == 3
MaxEntries == 3

MainThread == 0
Threads == 0..MaxWorkers
NoTask == 0
NoObj == 0

\* What the converter does for one input file.
\*   ok         : mkdir, load and export all return
\*   mkdirFail  : output_path.parent.mkdir raises
\*   loadFail   : model.init_from_ply* raises an Exception
\*   exportFail : exporter.export raises an Exception
\*   escape     : load raises an Exception that the except block cannot
\*                format (str(e) raises), so an exception leaves
\*                convert_single_file
TaskKinds == {"ok", "mkdirFail", "loadFail", "exportFail", "escape"}

\* What one construction of the bundle does.
CtorOutcomes == {"ok", "confFail", "modelFail", "exporterFail"}

\* argparse: action="store_true", default=True leaves one possible value.
ForceValues == {TRUE}

VARIABLES
    \* command line and file system
    inputKind,      \* "missing" | "notdir" | "dir"
    nFiles,         \* number of *.ply regular files under input_dir
    workers,        \* args.workers
    dryRun,         \* args.dry_run
    force,          \* args.force_zero_order_sh
    beh,            \* beh[t]: converter behaviour for task t
    \* main()
    pc,             \* position of the main thread
    nTasks,         \* len(tasks)
    idx,            \* loop counter i (tasks reported so far: i - 1)
    successful,     \* successful_conversions
    failed,         \* failed_conversions
    summary,        \* <<>> or <<total, successful, failed>> as logged
    exitCode,       \* -1 while running
    listed,         \* tasks listed by the dry run
    \* executor
    queue,          \* work queue of the ThreadPoolExecutor
    fut,            \* fut[t]: "none" | "pending" | "ok" | "fail" | "exc"
    yielded,        \* futures as_completed has yielded
    \* threads running convert_single_file
    wpc,            \* "idle" | "acquire" | "load" | "export"
    wtask,          \* task of the running call
    hmodel, hexp, hconf,   \* locals model, exporter, conf
    tl,             \* thread_local storage, one slot per thread
    \* converter objects
    modelOwner,     \* modelOwner[m]: thread that constructed model m
    modelData,      \* modelData[m]: task whose PLY the model holds (0: none)
    expOwner,       \* expOwner[e]: thread that constructed exporter e
    \* history
    attempts,       \* attempts[t]: calls of convert_single_file for t
    counted,        \* counted[t]: increments of the counters for t
    ctorCalls,      \* ctorCalls[w]: calls of MixtureOfGaussians(conf) by w
    ctorFailedW,    \* threads on which a construction raised
    loadCalls,      \* loadCalls[t]: calls of init_from_ply* for t
    exportCalls,    \* exportCalls[t]: calls of exporter.export for t
    ranOn,          \* ranOn[t]: thread that ran t (-1: none)
    mkdirs,         \* tasks whose output directory was created
    exported,       \* exported[t]: content written to t's output (0: none)
    calls,          \* direct calls of get_thread_local_objects, in order
    \* find_ply_files and create_conversion_tasks on a directory tree
    platform,       \* "posix" | "windows": the pathlib flavour
    entries,        \* entries under input_dir: [path, kind]
    plyFiles,       \* the list find_ply_files builds
    ptasks,         \* the list create_conversion_tasks returns
    \* ply_to_usd.py
    sExists,        \* input_path.exists()
    sName,          \* file name of input_path
    sOutputGiven,   \* --output_file was given
    sBeh            \* which statement of the conversion raises, if any

cliVars == <<inputKind, nFiles, workers, dryRun, force, beh>>
mainVars == <<pc, nTasks, idx, successful, failed, summary, exitCode, listed>>
poolVars == <<queue, fut, yielded>>
workerVars == <<wpc, wtask, hmodel, hexp, hconf>>
objVars == <<tl, modelOwner, modelData, expOwner>>
histVars == <<attempts, counted, ctorCalls, ctorFailedW, loadCalls,
              exportCalls, ranOn, mkdirs, exported>>
histVarsNoCtor == <<attempts, counted, loadCalls, exportCalls, ranOn, mkdirs,
                    exported>>
planVars == <<platform, entries, plyFiles, ptasks>>
singleVars == <<sExists, sName, sOutputGiven, sBeh>>
vars == <<cliVars, mainVars, poolVars, workerVars, objVars, histVars, calls,
          planVars, singleVars>>

Tasks == 1..nTasks

----------------------------------------------------------------------------
\* thread_local and get_thread_local_objects

EmptySlot == [model |-> NoObj, exporter |-> NoObj, conf |-> "none", flag |-> {}]

\* threading.local(): every thread sees its own attributes.
TLSlot_shared(w) == MainThread
TLSlot(w) == w

\* load_default_config() and the zero-order override of lines 125-128.
ActiveConfig(f) == IF f THEN "zero_sh" ELSE "default"

\* The negation of the test on line 120.
HasBundle(s) == s.model # NoObj /\ s.exporter # NoObj

\* get_thread_local_objects(force_zero_order_sh) on slot s; newModel and
\* newExporter are the identities a construction would produce.
\* Result: the slot afterwards, whether the call raised, the returned
\* triple, and which constructors were called / returned.
Cached(s) ==
    [slot |-> s, raised |-> FALSE, ret |-> <<s.model, s.exporter, s.conf>>,
     modelCalled |-> FALSE, modelBuilt |-> FALSE, expBuilt |-> FALSE]

\* Lines 121-134: the body of the if.
Construct(s, f, outcome, newModel, newExporter) ==
    CASE outcome = "confFail" ->
           \* load_default_config raises on line 122
           [slot |-> s, raised |-> TRUE, ret |-> <<NoObj, NoObj, "none">>,
            modelCalled |-> FALSE, modelBuilt |-> FALSE, expBuilt |-> FALSE]
      [] outcome = "modelFail" ->
           \* MixtureOfGaussians(conf) raises on line 131
           [slot |-> s, raised |-> TRUE, ret |-> <<NoObj, NoObj, "none">>,
            modelCalled |-> TRUE, modelBuilt |-> FALSE, expBuilt |-> FALSE]
      [] outcome = "exporterFail" ->
           \* line 131 has assigned thread_local.model, line 132 raises
           [slot |-> [s EXCEPT !.model = newModel],
            raised |-> TRUE, ret |-> <<NoObj, NoObj, "none">>,
            modelCalled |-> TRUE, modelBuilt |-> TRUE, expBuilt |-> FALSE]
      [] OTHER ->
           [slot |-> [model |-> newModel, exporter |-> newExporter,
                      conf |-> ActiveConfig(f), flag |-> {f}],
            raised |-> FALSE,
            ret |-> <<newModel, newExporter, ActiveConfig(f)>>,
            modelCalled |-> TRUE, modelBuilt |-> TRUE, expBuilt |-> TRUE]

GetThreadLocalObjects_reconfigure(s, f, outcome, newModel, newExporter) ==
    IF HasBundle(s) /\ s.flag = {f}
    THEN Cached(s)
    ELSE Construct(s, f, outcome, newModel, newExporter)

GetThreadLocalObjects(s, f, outcome, newModel, newExporter) ==
    IF HasBundle(s)
    THEN Cached(s)
    ELSE Construct(s, f, outcome, newModel, newExporter)

\* The effect of one call by thread w on the storage, the objects and the
\* construction history; r is the result of GetThreadLocalObjects.
ApplyGet(w, r) ==
    /\ tl' = [tl EXCEPT ![TLSlot(w)] = r.slot]
    /\ modelOwner' = IF r.modelBuilt THEN Append(modelOwner, w) ELSE modelOwner
    /\ modelData' = IF r.modelBuilt THEN Append(modelData, NoTask) ELSE modelData
    /\ expOwner' = IF r.expBuilt THEN Append(expOwner, w) ELSE expOwner
    /\ ctorCalls' = IF r.modelCalled
                    THEN [ctorCalls EXCEPT ![w] = @ + 1] ELSE ctorCalls
    /\ ctorFailedW' = IF r.raised THEN ctorFailedW \cup {w} ELSE ctorFailedW

GetResult(w, outcome) ==
    GetThreadLocalObjects(tl[TLSlot(w)], force, outcome,
                          Len(modelOwner) + 1, Len(expOwner) + 1)

----------------------------------------------------------------------------
\* Initial states

InitRun ==
    /\ wpc = [w \in Threads |-> "idle"]
    /\ wtask = [w \in Threads |-> NoTask]
    /\ hmodel = [w \in Threads |-> NoObj]
    /\ hexp = [w \in Threads |-> NoObj]
    /\ hconf = [w \in Threads |-> "none"]
    /\ tl = [w \in Threads |-> EmptySlot]
    /\ modelOwner = <<>>
    /\ modelData = <<>>
    /\ expOwner = <<>>
    /\ ctorCalls = [w \in Threads |-> 0]
    /\ ctorFailedW = {}
    /\ nTasks = 0
    /\ idx = 0
    /\ successful = 0
    /\ failed = 0
    /\ summary = <<>>
    /\ exitCode = -1
    /\ listed = {}
    /\ queue = <<>>
    /\ yielded = {}
    /\ mkdirs = {}
    /\ calls = <<>>

InitTasks ==
    /\ fut = [t \in 1..nFiles |-> "none"]
    /\ attempts = [t \in 1..nFiles |-> 0]
    /\ counted = [t \in 1..nFiles |-> 0]
    /\ loadCalls = [t \in 1..nFiles |-> 0]
    /\ exportCalls = [t \in 1..nFiles |-> 0]
    /\ ranOn = [t \in 1..nFiles |-> -1]
    /\ exported = [t \in 1..nFiles |-> NoTask]

\* No directory tree is walked in detail, no single-file run is under way.
InitNoPlan ==
    /\ platform = "posix"
    /\ entries = {}
    /\ plyFiles = <<>>
    /\ ptasks = <<>>

InitNoSingle ==
    /\ sExists = FALSE
    /\ sName = <<>>
    /\ sOutputGiven = FALSE
    /\ sBeh = "ok"

Init ==
    /\ InitNoPlan
    /\ InitNoSingle
    /\ inputKind \in {"missing", "notdir", "dir"}
    /\ nFiles \in IF inputKind = "dir" THEN 0..MaxTasks ELSE {0}
    /\ workers \in 1..MaxWorkers
    /\ dryRun \in BOOLEAN
    /\ force \in ForceValues
    /\ beh \in [1..nFiles -> TaskKinds]
    /\ pc = "start"
    /\ InitRun
    /\ InitTasks

----------------------------------------------------------------------------
\* convert_single_file, run by thread w for task wtask[w]

\* The except block of lines 168-173: (False, error_msg) is returned, unless
\* formatting the message raises, and then that exception leaves the call.
OnException_uncaught(kind) == "exc"
OnException(kind) == IF kind = "escape" THEN "exc" ELSE "fail"

\* The call returns (True, msg) / (False, msg) or raises: the thread is
\* idle again and the result is what the caller (or the future) receives.
Finish(w, res) ==
    /\ fut' = [fut EXCEPT ![wtask[w]] = res]
    /\ wpc' = [wpc EXCEPT ![w] = "idle"]
    /\ wtask' = [wtask EXCEPT ![w] = NoTask]
    /\ hmodel' = [hmodel EXCEPT ![w] = NoObj]
    /\ hexp' = [hexp EXCEPT ![w] = NoObj]
    /\ hconf' = [hconf EXCEPT ![w] = "none"]

\* Line 152; an exception goes to the except block of lines 168-173.
Acquire(w) ==
    /\ wpc[w] = "acquire"
    /\ \E outcome \in CtorOutcomes :
         LET r == GetResult(w, outcome) IN
         /\ ApplyGet(w, r)
         /\ IF r.raised
            THEN Finish(w, OnException(outcome))
            ELSE /\ wpc' = [wpc EXCEPT ![w] = "load"]
                 /\ hmodel' = [hmodel EXCEPT ![w] = r.ret[1]]
                 /\ hexp' = [hexp EXCEPT ![w] = r.ret[2]]
                 /\ hconf' = [hconf EXCEPT ![w] = r.ret[3]]
                 /\ UNCHANGED <<fut, wtask>>
    /\ UNCHANGED <<cliVars, mainVars, queue, yielded, attempts, counted,
                   loadCalls, exportCalls, ranOn, mkdirs, exported, calls,
                   planVars, singleVars>>

\* Lines 155-161: create the output directory, then load the PLY into the
\* model the local variable refers to.
Load(w) ==
    LET t == wtask[w] IN
    /\ wpc[w] = "load"
    /\ IF beh[t] = "mkdirFail"
       THEN /\ Finish(w, OnException(beh[t]))
            /\ UNCHANGED <<mkdirs, loadCalls, modelData>>
       ELSE /\ mkdirs' = mkdirs \cup {t}
            /\ loadCalls' = [loadCalls EXCEPT ![t] = @ + 1]
            /\ IF beh[t] \in {"loadFail", "escape"}
               THEN \* a failed load leaves no usable content in the model
                    /\ modelData' = [modelData EXCEPT ![hmodel[w]] = NoTask]
                    /\ Finish(w, OnException(beh[t]))
               ELSE /\ modelData' = [modelData EXCEPT ![hmodel[w]] = t]
                    /\ wpc' = [wpc EXCEPT ![w] = "export"]
                    /\ UNCHANGED <<fut, wtask, hmodel, hexp, hconf>>
    /\ UNCHANGED <<cliVars, mainVars, queue, yielded, tl, modelOwner, expOwner,
                   attempts, counted, ctorCalls, ctorFailedW, exportCalls,
                   ranOn, exported, calls,
                   planVars, singleVars>>

\* Lines 164-166.
Export(w) ==
    LET t == wtask[w] IN
    /\ wpc[w] = "export"
    /\ exportCalls' = [exportCalls EXCEPT ![t] = @ + 1]
    /\ IF beh[t] = "exportFail"
       THEN /\ Finish(w, OnException(beh[t]))
            /\ UNCHANGED exported
       ELSE /\ exported' = [exported EXCEPT ![t] = modelData[hmodel[w]]]
            /\ Finish(w, "ok")
    /\ UNCHANGED <<cliVars, mainVars, queue, yielded, objVars, attempts,
                   counted, ctorCalls, ctorFailedW, loadCalls, ranOn, mkdirs,
                   calls,
                   planVars, singleVars>>

----------------------------------------------------------------------------
\* main()

Exit(code) ==
    /\ pc' = "exit"
    /\ exitCode' = code

\* Lines 226-233.
Validate ==
    /\ pc = "start"
    /\ IF inputKind # "dir"
       THEN Exit(1)
       ELSE pc' = "find" /\ UNCHANGED exitCode
    /\ UNCHANGED <<cliVars, nTasks, idx, successful, failed, summary, listed,
                   poolVars, workerVars, objVars, histVars, calls,
                   planVars, singleVars>>

\* Lines 235-248: find_ply_files and create_conversion_tasks.
Plan ==
    /\ pc = "find"
    /\ IF nFiles = 0
       THEN Exit(0) /\ UNCHANGED nTasks
       ELSE pc' = "planned" /\ nTasks' = nFiles /\ UNCHANGED exitCode
    /\ UNCHANGED <<cliVars, idx, successful, failed, summary, listed,
                   poolVars, workerVars, objVars, histVars, calls,
                   planVars, singleVars>>

\* Lines 250-254.
DryRun_exitOne ==
    /\ pc = "planned"
    /\ dryRun
    /\ listed' = Tasks
    /\ Exit(1)
    /\ UNCHANGED <<cliVars, nTasks, idx, successful, failed, summary,
                   poolVars, workerVars, objVars, histVars, calls,
                   planVars, singleVars>>

DryRun ==
    /\ pc = "planned"
    /\ dryRun
    /\ listed' = Tasks
    /\ Exit(0)
    /\ UNCHANGED <<cliVars, nTasks, idx, successful, failed, summary,
                   poolVars, workerVars, objVars, histVars, calls,
                   planVars, singleVars>>

\* Lines 256-260 and, with more than one worker, the submissions of
\* lines 273-278.
BeginBatch ==
    /\ pc = "planned"
    /\ successful' = 0
    /\ failed' = 0
    /\ idx' = 1
    /\ IF workers = 1
       THEN pc' = "seq" /\ UNCHANGED <<queue, fut>>
       ELSE /\ pc' = "collect"
            /\ queue' = [i \in 1..nTasks |-> i]
            /\ fut' = [t \in DOMAIN fut |-> "pending"]
    /\ UNCHANGED <<cliVars, nTasks, summary, exitCode, listed, yielded,
                   workerVars, objVars, histVars, calls,
                   planVars, singleVars>>

\* Line 254 has left main() when --dry_run was given.
StartBatch_ignoreDryRun == BeginBatch

StartBatch ==
    /\ ~dryRun
    /\ BeginBatch

\* Line 264: the main thread enters convert_single_file for tasks[i-1].
SeqCall_anyOrder ==
    /\ pc = "seq"
    /\ wpc[MainThread] = "idle"
    /\ \E t \in Tasks :
         /\ fut[t] = "none"
         /\ wpc' = [wpc EXCEPT ![MainThread] = "acquire"]
         /\ wtask' = [wtask EXCEPT ![MainThread] = t]
         /\ attempts' = [attempts EXCEPT ![t] = @ + 1]
         /\ ranOn' = [ranOn EXCEPT ![t] = MainThread]
    /\ UNCHANGED <<cliVars, mainVars, poolVars, hmodel, hexp, hconf, objVars,
                   counted, ctorCalls, ctorFailedW, loadCalls, exportCalls,
                   mkdirs, exported, calls,
                   planVars, singleVars>>

SeqCall ==
    /\ pc = "seq"
    /\ wpc[MainThread] = "idle"
    /\ fut[idx] = "none"
    /\ wpc' = [wpc EXCEPT ![MainThread] = "acquire"]
    /\ wtask' = [wtask EXCEPT ![MainThread] = idx]
    /\ attempts' = [attempts EXCEPT ![idx] = @ + 1]
    /\ ranOn' = [ranOn EXCEPT ![idx] = MainThread]
    /\ UNCHANGED <<cliVars, mainVars, poolVars, hmodel, hexp, hconf, objVars,
                   counted, ctorCalls, ctorFailedW, loadCalls, exportCalls,
                   mkdirs, exported, calls,
                   planVars, singleVars>>

\* What the reporter does with one result: lines 267-270 and 289-297.
Count_dropRaised(t, res) ==
    /\ successful' = IF res = "ok" THEN successful + 1 ELSE successful
    /\ failed' = IF res = "fail" THEN failed + 1 ELSE failed
    /\ counted' = [counted EXCEPT ![t] = @ + 1]
    /\ idx' = idx + 1
    /\ pc' = IF idx = nTasks THEN "summary" ELSE pc

Count(t, res) ==
    /\ successful' = IF res = "ok" THEN successful + 1 ELSE successful
    /\ failed' = IF res = "ok" THEN failed ELSE failed + 1
    /\ counted' = [counted EXCEPT ![t] = @ + 1]
    /\ idx' = idx + 1
    /\ pc' = IF idx = nTasks THEN "summary" ELSE pc

\* Lines 264-270: the call returned.
SeqReturn ==
    /\ pc = "seq"
    /\ wpc[MainThread] = "idle"
    /\ fut[idx] \in {"ok", "fail"}
    /\ Count(idx, fut[idx])
    /\ UNCHANGED <<cliVars, nTasks, summary, exitCode, listed, poolVars,
                   workerVars, objVars, attempts, ctorCalls, ctorFailedW,
                   loadCalls, exportCalls, ranOn, mkdirs, exported, calls,
                   planVars, singleVars>>

\* Line 264 raised: the loop of lines 262-270 has no handler, the
\* exception leaves main() and the interpreter exits with status 1.
SeqRaise ==
    /\ pc = "seq"
    /\ wpc[MainThread] = "idle"
    /\ fut[idx] = "exc"
    /\ Exit(1)
    /\ UNCHANGED <<cliVars, nTasks, idx, successful, failed, summary, listed,
                   poolVars, workerVars, objVars, histVars, calls,
                   planVars, singleVars>>

\* Pool threads are numbered in the order in which they first take work.
Started(w) == \E t \in Tasks : ranOn[t] = w

\* A pool thread takes the next work item.
Take(w) ==
    /\ pc = "collect"
    /\ w \in 1..workers
    /\ w = 1 \/ Started(w - 1)
    /\ wpc[w] = "idle"
    /\ queue # <<>>
    /\ queue' = Tail(queue)
    /\ wpc' = [wpc EXCEPT ![w] = "acquire"]
    /\ wtask' = [wtask EXCEPT ![w] = Head(queue)]
    /\ attempts' = [attempts EXCEPT ![Head(queue)] = @ + 1]
    /\ ranOn' = [ranOn EXCEPT ![Head(queue)] = w]
    /\ UNCHANGED <<cliVars, mainVars, fut, yielded, hmodel, hexp, hconf,
                   objVars, counted, ctorCalls, ctorFailedW, loadCalls,
                   exportCalls, mkdirs, exported, calls,
                   planVars, singleVars>>

\* Lines 281-297: as_completed yields a finished future; future.result()
\* returns the tuple or raises what the call raised.
Collect(t) ==
    /\ pc = "collect"
    /\ t \in Tasks \ yielded
    /\ fut[t] \in {"ok", "fail", "exc"}
    /\ yielded' = yielded \cup {t}
    /\ Count(t, fut[t])
    /\ UNCHANGED <<cliVars, nTasks, summary, exitCode, listed, queue, fut,
                   workerVars, objVars, attempts, ctorCalls, ctorFailedW,
                   loadCalls, exportCalls, ranOn, mkdirs, exported, calls,
                   planVars, singleVars>>

\* Lines 299-311.
Summary_exitZero ==
    /\ pc = "summary"
    /\ summary' = <<nTasks, successful, failed>>
    /\ Exit(0)
    /\ UNCHANGED <<cliVars, nTasks, idx, successful, failed, listed,
                   poolVars, workerVars, objVars, histVars, calls,
                   planVars, singleVars>>

Summary ==
    /\ pc = "summary"
    /\ summary' = <<nTasks, successful, failed>>
    /\ Exit(IF failed > 0 THEN 1 ELSE 0)
    /\ UNCHANGED <<cliVars, nTasks, idx, successful, failed, listed,
                   poolVars, workerVars, objVars, histVars, calls,
                   planVars, singleVars>>

Next ==
    \/ Validate
    \/ Plan
    \/ DryRun
    \/ StartBatch
    \/ SeqCall
    \/ SeqReturn
    \/ SeqRaise
    \/ \E w \in Threads : Take(w)
    \/ \E w \in Threads : Acquire(w)
    \/ \E w \in Threads : Load(w)
    \/ \E w \in Threads : Export(w)
    \/ \E t \in 1..MaxTasks : Collect(t)
    \/ Summary

Spec == Init /\ [][Next]_vars

----------------------------------------------------------------------------
\* get_thread_local_objects called directly, by any thread with any flag

InitCache ==
    /\ InitNoPlan
    /\ InitNoSingle
    /\ inputKind = "dir"
    /\ nFiles = 0
    /\ workers = MaxWorkers
    /\ dryRun = FALSE
    /\ force \in ForceValues
    /\ beh = <<>>
    /\ pc = "lib"
    /\ InitRun
    /\ InitTasks

CacheCall(w, f) ==
    /\ pc = "lib"
    /\ Len(calls) < MaxCalls
    /\ \E outcome \in CtorOutcomes :
         LET r == GetThreadLocalObjects(tl[TLSlot(w)], f, outcome,
                                        Len(modelOwner) + 1, Len(expOwner) + 1)
         IN  /\ ApplyGet(w, r)
             /\ calls' = Append(calls, [thread |-> w, flag |-> f,
                                        raised |-> r.raised, ret |-> r.ret])
    /\ UNCHANGED <<cliVars, mainVars, poolVars, workerVars, histVarsNoCtor,
                   planVars, singleVars>>

NextCache == \E w \in Threads, f \in BOOLEAN : CacheCall(w, f)

SpecCache == InitCache /\ [][NextCache]_vars

----------------------------------------------------------------------------
\* Paths.  A file name is a sequence of characters, a path a sequence of
\* names.

PlySuffix == <<".", "p", "l", "y">>
UsdzSuffix == <<".", "u", "s", "d", "z">>

\* str.lower() on the characters that occur
Lower(c) ==
    CASE c = "P" -> "p"
      [] c = "L" -> "l"
      [] c = "Y" -> "y"
      [] OTHER -> c

LowerName(name) == [i \in 1..Len(name) |-> Lower(name[i])]

\* name.rfind('.'), counted from 1 (0: no dot)
LastDot(name) ==
    IF \E i \in 1..Len(name) : name[i] = "."
    THEN CHOOSE i \in 1..Len(name) :
            /\ name[i] = "."
            /\ \A j \in (i + 1)..Len(name) : name[j] # "."
    ELSE 0

\* PurePath.suffix: the part from the last dot, unless the dot is the
\* first or the last character of the name.
Suffix(name) ==
    LET i == LastDot(name) IN
    IF i > 1 /\ i < Len(name) THEN SubSeq(name, i, Len(name)) ELSE <<>>

\* PurePath.with_suffix on a file name.
WithSuffix(name, suffix) ==
    IF Suffix(name) = <<>>
    THEN name \o suffix
    ELSE SubSeq(name, 1, Len(name) - Len(Suffix(name))) \o suffix

\* with_suffix on a path: only the last name changes.
PathWithSuffix(path, suffix) ==
    SubSeq(path, 1, Len(path) - 1) \o <<WithSuffix(path[Len(path)], suffix)>>

\* path.relative_to(root) for a path below root.
RelativeTo(path, root) == SubSeq(path, Len(root) + 1, Len(path))

\* The glob pattern "*.ply" against one name: fnmatch over the whole name,
\* ignoring case on the Windows flavour only.
MatchesPattern(name, flavour) ==
    /\ Len(name) >= Len(PlySuffix)
    /\ LET tail == SubSeq(name, Len(name) - Len(PlySuffix) + 1, Len(name))
       IN  IF flavour = "windows"
           THEN LowerName(tail) = PlySuffix
           ELSE tail = PlySuffix

InputDir == << <<"i", "n">> >>
OutputDir == << <<"o", "u", "t">> >>

File(path) == [path |-> path, kind |-> "file"]
Dir(path) == [path |-> path, kind |-> "dir"]

\* The entries a tree under input_dir is drawn from.
EntryUniverse ==
    { File(<< <<"x", ".", "p", "l", "y">> >>),
      File(<< <<"x", ".", "P", "L", "Y">> >>),
      File(<< <<"a">>, <<"x", ".", "P", "l", "y">> >>),
      File(<< <<"a">>, <<"b">>, <<"y", ".", "p", "l", "y">> >>),
      File(<< <<".", "p", "l", "y">> >>),
      File(<< <<".", "p", "l", "y", ".", "p", "l", "y">> >>),
      Dir(<< <<"d", ".", "p", "l", "y">> >>),
      File(<< <<"d", ".", "p", "l", "y">>, <<"z", ".", "p", "l", "y">> >>),
      File(<< <<"x", ".", "t", "x", "t">> >>) }

LowerPath(path) == [i \in 1..Len(path) |-> LowerName(path[i])]

\* A tree the file system can hold: a file lies in a directory, and on
\* Windows no two entries differ only in case.
WellFormedTree(T, flavour) ==
    /\ \A e \in T :
          Len(e.path) > 1 /\ Dir(SubSeq(e.path, 1, 1)) \in EntryUniverse
              => Dir(SubSeq(e.path, 1, 1)) \in T
    /\ flavour = "windows" =>
          \A e, g \in T : LowerPath(e.path) = LowerPath(g.path) => e = g

\* Lines 78-80: what the loop of find_ply_files appends.
Found(e, flavour) ==
    /\ MatchesPattern(e.path[Len(e.path)], flavour)
    /\ e.kind = "file"

\* Lines 101-110: the task of one file.
MakeTask(plyFile) ==
    LET relative_path == RelativeTo(plyFile, InputDir) IN
    [input_path |-> plyFile,
     output_path |-> OutputDir \o PathWithSuffix(relative_path, UsdzSuffix),
     relative_path |-> relative_path]

InitPlan ==
    /\ InitNoSingle
    /\ platform \in {"posix", "windows"}
    /\ entries \in {T \in SUBSET EntryUniverse :
                      Cardinality(T) <= MaxEntries /\ WellFormedTree(T, platform)}
    /\ plyFiles = <<>>
    /\ ptasks = <<>>
    /\ inputKind = "dir"
    /\ nFiles = 0
    /\ workers = 1
    /\ dryRun = FALSE
    /\ force \in ForceValues
    /\ beh = <<>>
    /\ pc = "find_ply_files"
    /\ InitRun
    /\ InitTasks

InPlyFiles(path) == \E i \in 1..Len(plyFiles) : plyFiles[i] = path

\* One iteration of the loop of lines 78-80; rglob yields every entry once,
\* in no particular order.
FindStep(e) ==
    /\ pc = "find_ply_files"
    /\ e \in entries
    /\ Found(e, platform)
    /\ ~InPlyFiles(InputDir \o e.path)
    /\ plyFiles' = Append(plyFiles, InputDir \o e.path)
    /\ UNCHANGED <<cliVars, mainVars, poolVars, workerVars, objVars, histVars,
                   calls, platform, entries, ptasks, singleVars>>

\* Lines 82-83: the walk is over.
FindReturn ==
    /\ pc = "find_ply_files"
    /\ \A e \in entries : Found(e, platform) => InPlyFiles(InputDir \o e.path)
    /\ pc' = "create_conversion_tasks"
    /\ UNCHANGED <<cliVars, nTasks, idx, successful, failed, summary,
                   exitCode, listed, poolVars, workerVars, objVars, histVars,
                   calls, planVars, singleVars>>

\* Lines 98-112.
CreateConversionTasks ==
    /\ pc = "create_conversion_tasks"
    /\ ptasks' = [i \in 1..Len(plyFiles) |-> MakeTask(plyFiles[i])]
    /\ pc' = "planned_tasks"
    /\ UNCHANGED <<cliVars, nTasks, idx, successful, failed, summary,
                   exitCode, listed, poolVars, workerVars, objVars, histVars,
                   calls, platform, entries, plyFiles, singleVars>>

NextPlan ==
    \/ \E e \in EntryUniverse : FindStep(e)
    \/ FindReturn
    \/ CreateConversionTasks

SpecPlan == InitPlan /\ [][NextPlan]_vars

----------------------------------------------------------------------------
\* ply_to_usd.py: main() of the single-file converter

SingleNames ==
    { <<"x", ".", "p", "l", "y">>,
      <<"x", ".", "P", "L", "Y">>,
      <<"x", ".", "P", "l", "y">>,
      <<"x", ".", "t", "x", "t">>,
      <<"x", ".", "p", "l", "y", ".", "t", "x", "t">>,
      <<".", "p", "l", "y">>,
      <<"p", "l", "y">> }

\* Which statement raises: mkdir (line 77), load_default_config (88),
\* MixtureOfGaussians (99), init_from_ply* (104/106), USDZExporter (109),
\* export (113); "ok": none.
SingleKinds == {"ok", "mkdirFail", "confFail", "modelFail", "loadFail",
                "exporterFail", "exportFail"}

InitSingle ==
    /\ InitNoPlan
    /\ sExists \in BOOLEAN
    /\ sName \in SingleNames
    /\ sOutputGiven \in BOOLEAN
    /\ sBeh \in SingleKinds
    /\ inputKind = "dir"
    /\ nFiles = 1
    /\ workers = 1
    /\ dryRun = FALSE
    /\ force \in ForceValues
    /\ beh = <<"ok">>
    /\ pc = "s_validate"
    /\ InitRun
    /\ InitTasks

\* Lines 65-72.
SingleValidate_noSuffixCheck ==
    /\ pc = "s_validate"
    /\ IF ~sExists
       THEN Exit(1)
       ELSE pc' = "s_output" /\ UNCHANGED exitCode
    /\ UNCHANGED <<cliVars, nTasks, idx, successful, failed, summary, listed,
                   poolVars, workerVars, objVars, histVars, calls, planVars,
                   singleVars>>

SingleValidate ==
    /\ pc = "s_validate"
    /\ IF ~sExists \/ LowerName(Suffix(sName)) # PlySuffix
       THEN Exit(1)
       ELSE pc' = "s_output" /\ UNCHANGED exitCode
    /\ UNCHANGED <<cliVars, nTasks, idx, successful, failed, summary, listed,
                   poolVars, workerVars, objVars, histVars, calls, planVars,
                   singleVars>>

\* Lines 74-83; the mkdir of line 77 is outside the try block, so its
\* exception ends the interpreter with status 1.
SingleOutput ==
    /\ pc = "s_output"
    /\ IF sOutputGiven /\ sBeh = "mkdirFail"
       THEN Exit(1) /\ UNCHANGED mkdirs
       ELSE /\ pc' = "s_construct"
            /\ mkdirs' = IF sOutputGiven THEN {1} ELSE mkdirs
            /\ UNCHANGED exitCode
    /\ UNCHANGED <<cliVars, nTasks, idx, successful, failed, summary, listed,
                   poolVars, workerVars, objVars, attempts, counted,
                   ctorCalls, ctorFailedW, loadCalls, exportCalls, ranOn,
                   exported, calls, planVars, singleVars>>

\* Lines 85-99; an exception is caught on line 116 and line 118 exits.
SingleConstruct ==
    /\ pc = "s_construct"
    /\ IF sBeh = "confFail"
       THEN Exit(1) /\ UNCHANGED <<ctorCalls, modelOwner, modelData>>
       ELSE /\ ctorCalls' = [ctorCalls EXCEPT ![MainThread] = @ + 1]
            /\ IF sBeh = "modelFail"
               THEN Exit(1) /\ UNCHANGED <<modelOwner, modelData>>
               ELSE /\ modelOwner' = Append(modelOwner, MainThread)
                    /\ modelData' = Append(modelData, NoTask)
                    /\ pc' = "s_load"
                    /\ UNCHANGED exitCode
    /\ UNCHANGED <<cliVars, nTasks, idx, successful, failed, summary, listed,
                   poolVars, workerVars, tl, expOwner, attempts, counted,
                   ctorFailedW, loadCalls, exportCalls, ranOn, mkdirs,
                   exported, calls, planVars, singleVars>>

\* Lines 101-106.
SingleLoad ==
    /\ pc = "s_load"
    /\ loadCalls' = [loadCalls EXCEPT ![1] = @ + 1]
    /\ IF sBeh = "loadFail"
       THEN Exit(1) /\ UNCHANGED modelData
       ELSE /\ modelData' = [modelData EXCEPT ![Len(modelData)] = 1]
            /\ pc' = "s_export"
            /\ UNCHANGED exitCode
    /\ UNCHANGED <<cliVars, nTasks, idx, successful, failed, summary, listed,
                   poolVars, workerVars, tl, modelOwner, expOwner, attempts,
                   counted, ctorCalls, ctorFailedW, exportCalls, ranOn,
                   mkdirs, exported, calls, planVars, singleVars>>

\* Lines 108-118; main() returning gives exit status 0.
SingleExport ==
    /\ pc = "s_export"
    /\ IF sBeh = "exporterFail"
       THEN Exit(1) /\ UNCHANGED <<expOwner, exportCalls, exported>>
       ELSE /\ expOwner' = Append(expOwner, MainThread)
            /\ exportCalls' = [exportCalls EXCEPT ![1] = @ + 1]
            /\ IF sBeh = "exportFail"
               THEN Exit(1) /\ UNCHANGED exported
               ELSE /\ exported' = [exported EXCEPT
                                       ![1] = modelData[Len(modelData)]]
                    /\ Exit(0)
    /\ UNCHANGED <<cliVars, nTasks, idx, successful, failed, summary, listed,
                   poolVars, workerVars, tl, modelOwner, modelData, attempts,
                   counted, ctorCalls, ctorFailedW, loadCalls, ranOn, mkdirs,
                   calls, planVars, singleVars>>

NextSingle ==
    \/ SingleValidate
    \/ SingleOutput
    \/ SingleConstruct
    \/ SingleLoad
    \/ SingleExport

SpecSingle == InitSingle /\ [][NextSingle]_vars

----------------------------------------------------------------------------
\* Properties

\* The run passed validation, found files and is not a dry run.
Executing == inputKind = "dir" /\ nFiles > 0 /\ ~dryRun

Finished == pc = "exit"

RECURSIVE SumOver(_, _)
SumOver(f, S) ==
    IF S = {} THEN 0
    ELSE LET x == CHOOSE y \in S : TRUE IN f[x] + SumOver(f, S \ {x})

\* C1: in a run that reaches execution, when the process has ended every
\* planned task was attempted exactly once and its outcome was counted by
\* the reporter exactly once.
C1_EachTaskOnce ==
    (Finished /\ Executing) =>
        \A t \in 1..nFiles : attempts[t] = 1 /\ counted[t] = 1

\* C2: a reported summary has total equal to the number of planned tasks
\* and total = successful + failed, whatever the number of workers.
C2_TotalIsSum ==
    summary # <<>> =>
        /\ summary[1] = nFiles
        /\ summary[1] = summary[2] + summary[3]

C2_Witness ==
    /\ summary # <<>>
    /\ workers > 1
    /\ nFiles > 1
    /\ summary[2] > 0
    /\ \E t \in 1..nFiles : fut[t] = "exc"

\* One input whose load or export raises among inputs that convert.
OnePoisoned ==
    \E p \in 1..nFiles :
        /\ beh[p] \in {"loadFail", "exportFail"}
        /\ \A t \in 1..nFiles \ {p} : beh[t] = "ok"

\* C3: with N inputs that convert and one whose load or export fails, in
\* any position, with any number of workers and any interleaving, the run
\* ends with N successful and 1 failed outcome, every other output having
\* been written; and the run can always go on until it has ended.
C3_FailureIsolated ==
    (Executing /\ OnePoisoned /\ ctorFailedW = {}) =>
        /\ Finished =>
              /\ summary = <<nFiles, nFiles - 1, 1>>
              /\ \A t \in 1..nFiles :
                    beh[t] = "ok" => fut[t] = "ok" /\ exported[t] = t
        /\ ~Finished => ENABLED Next

C3_Witness ==
    /\ Finished
    /\ Executing
    /\ OnePoisoned
    /\ ctorFailedW = {}
    /\ workers > 1
    /\ nFiles > 1
    /\ beh[1] \in {"loadFail", "exportFail"}
    /\ summary = <<nFiles, nFiles - 1, 1>>

\* C4: an exception that leaves convert_single_file is caught by the
\* scheduler, counted as one failed outcome for its task, and the batch
\* goes on to the remaining tasks and to the summary.
C4_EscapeCaught ==
    (Finished /\ Executing) =>
        \A t \in 1..nFiles :
            fut[t] = "exc" =>
                /\ counted[t] = 1
                /\ summary # <<>>
                /\ summary[3] >= 1
                /\ \A u \in 1..nFiles : attempts[u] = 1

\* The single-threaded loop of lines 262-270 followed by lines 299-311, as
\* a function of the converter's behaviour on tasks 1..n.
RECURSIVE SeqLoop(_, _, _, _, _)
SeqLoop(b, n, i, ok, bad) ==
    IF i > n
    THEN [summary |-> <<n, ok, bad>>, exitCode |-> IF bad > 0 THEN 1 ELSE 0]
    ELSE IF b[i] = "escape"
         THEN [summary |-> <<>>, exitCode |-> 1]
         ELSE IF b[i] = "ok"
              THEN SeqLoop(b, n, i + 1, ok + 1, bad)
              ELSE SeqLoop(b, n, i + 1, ok, bad + 1)

SingleWorkerResult(b) == SeqLoop(b, Len(b), 1, 0, 0)

\* C5: for the same tasks and the same converter behaviour, a run ends with
\* the summary and the exit code of the single-worker run, for every number
\* of workers and every completion order.
C5_SameAsSingleWorker ==
    (Finished /\ Executing /\ ctorFailedW = {}) =>
        [summary |-> summary, exitCode |-> exitCode] = SingleWorkerResult(beh)

\* C6: every thread calls the model constructor at most once, so a run
\* makes at most worker_count such calls.
C6_ConstructedOncePerWorker ==
    /\ \A w \in Threads : ctorCalls[w] <= 1
    /\ SumOver(ctorCalls, Threads) <= workers

\* C7: the model and the exporter a thread loads into or exports from, and
\* those its thread-local storage holds, were constructed by that thread.
C7_BundleOwnedByCreator ==
    /\ \A w \in Threads :
          wpc[w] \in {"load", "export"} =>
              /\ modelOwner[hmodel[w]] = w
              /\ expOwner[hexp[w]] = w
    /\ \A w \in Threads :
          /\ tl[w].model # NoObj => modelOwner[tl[w].model] = w
          /\ tl[w].exporter # NoObj => expOwner[tl[w].exporter] = w
    /\ \A t \in 1..nFiles :
          exported[t] # NoTask => exported[t] = t

C7_Witness ==
    /\ workers > 1
    /\ wpc[1] = "export"
    /\ wpc[2] = "load"
    /\ hmodel[1] # hmodel[2]
    /\ hexp[1] # hexp[2]
    /\ modelData[hmodel[1]] = wtask[1]

\* C8: once a thread has its bundle, a call from that thread leaves its
\* storage (model, exporter, conf, flag) unchanged and returns the stored
\* triple, whatever flag is passed; a call that constructs the bundle
\* applies the flag it was given.
C8_CachedUnconditionally ==
    [][\A w \in Threads :
         LET s == tl[TLSlot(w)] IN
         /\ HasBundle(s) => tl'[TLSlot(w)] = s
         /\ (calls' # calls /\ calls'[Len(calls')].thread = w) =>
               LET c == calls'[Len(calls')] IN
               IF HasBundle(s)
               THEN ~c.raised /\ c.ret = <<s.model, s.exporter, s.conf>>
               ELSE ~c.raised =>
                      /\ c.ret[3] = ActiveConfig(c.flag)
                      /\ tl'[TLSlot(w)].flag = {c.flag}
                      /\ tl'[TLSlot(w)].conf = ActiveConfig(c.flag)]_vars

C8_Witness ==
    \E i, j \in 1..Len(calls) :
        /\ i < j
        /\ calls[i].thread = calls[j].thread
        /\ ~calls[i].raised
        /\ calls[j].flag # calls[i].flag
        /\ calls[j].ret = calls[i].ret
        /\ tl[TLSlot(calls[i].thread)].flag = {calls[i].flag}

\* C9: no load and no export is invoked on a thread on which the
\* construction of the bundle has failed.
C9_NoTaskAfterFailedConstruction ==
    \A t \in 1..nFiles :
        ranOn[t] \in ctorFailedW => loadCalls[t] = 0 /\ exportCalls[t] = 0

\* C10: a dry run calls neither the converter nor the constructors and
\* writes nothing, and when it has ended it has listed every planned task
\* and exits with 0.
C10_DryRunTouchesNothing ==
    dryRun =>
        /\ \A t \in 1..nFiles :
              /\ attempts[t] = 0
              /\ loadCalls[t] = 0
              /\ exportCalls[t] = 0
              /\ exported[t] = NoTask
        /\ \A w \in Threads : ctorCalls[w] = 0 /\ tl[w] = EmptySlot
        /\ modelOwner = <<>>
        /\ expOwner = <<>>
        /\ mkdirs = {}
        /\ summary = <<>>
        /\ (Finished /\ inputKind = "dir" /\ nFiles > 0) =>
              listed = 1..nFiles /\ exitCode = 0

C10_Witness ==
    /\ dryRun
    /\ Finished
    /\ workers > 1
    /\ nFiles > 1
    /\ listed = 1..nFiles

\* A task whose conversion did not succeed.
TaskFailed(t) == fut[t] \in {"fail", "exc"}

\* C11: without --dry_run the process exits with 1 exactly when the input
\* directory is missing or not a directory or some task failed, and with 0
\* otherwise; with an invalid input directory nothing is planned or run.
C11_ExitCode ==
    /\ (Finished /\ ~dryRun) =>
          /\ exitCode \in {0, 1}
          /\ exitCode = 1 <=>
                (inputKind # "dir" \/ \E t \in 1..nFiles : TaskFailed(t))
    /\ inputKind # "dir" =>
          /\ pc \in {"start", "exit"}
          /\ nTasks = 0
          /\ listed = {}
          /\ \A t \in DOMAIN attempts : attempts[t] = 0

C11_Witness ==
    /\ Finished
    /\ ~dryRun
    /\ workers > 1
    /\ exitCode = 1
    /\ \E t \in 1..nFiles : fut[t] = "ok"
    /\ \E t \in 1..nFiles : fut[t] = "fail"

\* C12 as claimed: with --dry_run the process exits with 0 for every input
\* directory argument.
C12_DryRunAlwaysZero ==
    (Finished /\ dryRun) => exitCode = 0

\* C12 as amended: with --dry_run the process exits with 0 when the input
\* path is an existing directory, and with 1 when it is missing or not a
\* directory.
C12_DryRunZeroOnValidInput ==
    (Finished /\ dryRun) => (exitCode = IF inputKind = "dir" THEN 0 ELSE 1)

C12_Witness ==
    /\ Finished
    /\ dryRun
    /\ inputKind = "dir"
    /\ nFiles > 1
    /\ listed = 1..nFiles
    /\ exitCode = 0

\* C13: a run that passes input validation always logs the summary; with
\* an existing empty input directory it exits with 0 and logs the summary
\* <<0, 0, 0>>.
C13_SummaryAlwaysReported ==
    (Finished /\ inputKind = "dir" /\ ~dryRun) =>
        /\ summary # <<>>
        /\ nFiles = 0 => (exitCode = 0 /\ summary = <<0, 0, 0>>)

\* C16: with one worker the tasks run on the main thread in planning order,
\* one at a time: a task is started only after every earlier task has been
\* counted, and the outcomes are counted in planning order.
C16_SingleWorkerOrder ==
    (workers = 1) =>
        /\ \A w \in Threads \ {MainThread} : wpc[w] = "idle"
        /\ \A t \in 1..nFiles :
              /\ ranOn[t] \in {-1, MainThread}
              /\ attempts[t] <= 1
              /\ attempts[t] = 1 => \A u \in 1..(t - 1) : counted[u] = 1
              /\ counted[t] = 1 => \A u \in 1..(t - 1) : counted[u] = 1
              /\ counted[t] = 1 => fut[t] \in {"ok", "fail"}

C16_Witness ==
    /\ workers = 1
    /\ nFiles > 1
    /\ wpc[MainThread] = "load"
    /\ wtask[MainThread] = 2
    /\ counted[1] = 1
    /\ fut[1] = "fail"

CountedTasks == {t \in 1..nFiles : counted[t] > 0}

\* C18: the counters never decrease; at every moment successful is the
\* number of counted tasks that returned success and failed the number of
\* the other counted tasks, each task counted at most once; the summary is
\* logged only when every task has completed and been counted.
C18_CountersExact ==
    /\ [](/\ \A t \in 1..nFiles : counted[t] <= 1
          /\ successful = Cardinality({t \in CountedTasks : fut[t] = "ok"})
          /\ failed = Cardinality({t \in CountedTasks : fut[t] # "ok"})
          /\ successful + failed = Cardinality(CountedTasks)
          /\ workers > 1 => CountedTasks = yielded
          /\ summary # <<>> =>
                /\ CountedTasks = 1..nFiles
                /\ \A w \in Threads : wpc[w] = "idle"
                /\ summary = <<nFiles, successful, failed>>)
    /\ [][successful' >= successful /\ failed' >= failed]_vars

C18_Witness ==
    /\ workers > 1
    /\ nFiles > 1
    /\ pc = "collect"
    /\ successful = 1
    /\ failed = 0
    /\ yielded = {2}
    /\ wpc[1] = "export"

\* C19: when a thread is about to export, its model holds the PLY of the
\* task it is running; export is invoked for a task only after that task's
\* load returned, and success is returned only after the export wrote that
\* task's data.
C19_ExportReadsOwnLoad ==
    /\ \A w \in Threads :
          wpc[w] = "export" =>
              /\ modelData[hmodel[w]] = wtask[w]
              /\ loadCalls[wtask[w]] = 1
    /\ \A t \in 1..nFiles :
          /\ exportCalls[t] <= loadCalls[t]
          /\ exportCalls[t] > 0 => beh[t] \in {"ok", "exportFail"}
          /\ fut[t] = "ok" => (exportCalls[t] = 1 /\ exported[t] = t)
          /\ exported[t] # NoTask => exported[t] = t

C19_Witness ==
    /\ nFiles > 1
    /\ \E w \in Threads :
          /\ wpc[w] = "export"
          /\ wtask[w] = 2
          /\ ranOn[1] = w
          /\ loadCalls[1] = 1
          /\ modelData[hmodel[w]] = 2

Planned == pc = "planned_tasks"

\* The extension of the name equals ".ply" when case is ignored (the test
\* ply_to_usd.py makes on its input).
HasPlyExtension(name) == LowerName(Suffix(name)) = PlySuffix

\* C14: the planner produces exactly one task for every regular file under
\* the input root whose extension is ".ply" in any case, and none for any
\* other file or for a directory.
C14_OneTaskPerPlyFile ==
    Planned =>
        /\ {ptasks[i].input_path : i \in 1..Len(ptasks)} =
              {InputDir \o e.path :
                  e \in {g \in entries :
                           /\ g.kind = "file"
                           /\ HasPlyExtension(g.path[Len(g.path)])}}
        /\ \A i, j \in 1..Len(ptasks) :
              ptasks[i].input_path = ptasks[j].input_path => i = j

\* The name with everything from its last dot on replaced by ".usdz".
ExtensionReplaced(name) == SubSeq(name, 1, LastDot(name) - 1) \o UsdzSuffix

\* C15: for every planned task relative_path is input_path below the input
\* root, and output_path is the output root followed by the directories of
\* relative_path and by its file name with the final extension replaced.
C15_OutputMirrorsInput ==
    Planned =>
        \A i \in 1..Len(ptasks) :
            LET t == ptasks[i]
                rel == t.relative_path
                n == Len(rel)
            IN  /\ t.input_path = InputDir \o rel
                /\ t.output_path =
                      OutputDir \o SubSeq(rel, 1, n - 1)
                                \o <<ExtensionReplaced(rel[n])>>

\* C20: distinct planned tasks have distinct output paths.
C20_OutputPathsDistinct ==
    Planned =>
        \A i, j \in 1..Len(ptasks) :
            ptasks[i].output_path = ptasks[j].output_path => i = j

\* The names of SingleNames that end in a ".ply" extension, in any case.
PlyNamed ==
    sName \in { <<"x", ".", "p", "l", "y">>,
                <<"x", ".", "P", "L", "Y">>,
                <<"x", ".", "P", "l", "y">> }

\* A statement of the conversion raises in this run.
SingleFails ==
    \/ sBeh \in {"confFail", "modelFail", "loadFail", "exporterFail",
                 "exportFail"}
    \/ sBeh = "mkdirFail" /\ sOutputGiven

\* C17: the single-file converter exits with 1 when the input is missing,
\* when its extension is not ".ply" (in any case) and when configuration,
\* load or export fails; it exits with 0 exactly when the output was
\* written; after a failed validation nothing is constructed, loaded or
\* exported.
C17_SingleFileExitCode ==
    /\ Finished =>
          /\ exitCode \in {0, 1}
          /\ exitCode = 0 <=> (sExists /\ PlyNamed /\ ~SingleFails)
          /\ exitCode = 0 <=> exported[1] = 1
    /\ (~sExists \/ ~PlyNamed) =>
          /\ loadCalls[1] = 0
          /\ exportCalls[1] = 0
          /\ ctorCalls[MainThread] = 0
          /\ mkdirs = {}
          /\ pc \in {"s_validate", "exit"}

C17_Witness ==
    /\ Finished
    /\ sExists
    /\ sName = <<"x", ".", "P", "L", "Y">>
    /\ sOutputGiven
    /\ exitCode = 0
    /\ loadCalls[1] = 1
    /\ exported[1] = 1

====
